---- MODULE Spec2Model ----
(***************************************************************************)
(* A model of scanner.py: the capture-and-assemble pipeline that scans     *)
(* pages with scanimage, converts each page to a PDF with tesseract or     *)
(* convert, merges the pages with gs and copies the result to the output   *)
(* path.  The external programs are black boxes: each invocation returns   *)
(* an exit status and may or may not produce its output file.  The script  *)
(* never reads the exit status.                                            *)
(***************************************************************************)
EXTENDS Integers, Sequences, FiniteSets, TLC

\* Largest page count explored.
MaxPages == 3

\* Exit status of sys.exit(1) in look_for_required_commands.
EXIT_FAILURE == 1

VARIABLES
    pc,           \* position of the process in the script
    installed,    \* external commands found on the search path
    argv,         \* command line: pages, no_ocr, filename, output dir
    pages,        \* the resolved --pages value
    outfiles0,    \* the output directory as it was when the process started
    outfiles,     \* the output directory: file name -> content
    tempdir,      \* whether the TemporaryDirectory exists
    tempfiles,    \* the temporary directory: path -> content
    page,         \* loop variable of the scan loop
    page_list,    \* page_list
    conv_i,       \* position of the conversion loop in page_list
    pdf_list,     \* pdf_list
    final_pdf,    \* final_pdf
    events,       \* what the process did, in order
    logged,       \* loguru error records
    exit_status   \* the process's exit status once pc = "exited"

vars == <<pc, installed, argv, pages, outfiles0, outfiles, tempdir, tempfiles,
          page, page_list, conv_i, pdf_list, final_pdf, events, logged,
          exit_status>>

----------------------------------------------------------------------------
\* Paths, file contents and events

\* pathlib.Path(f"page_{page}.tiff")
page_name(p) == [stem |-> "page_" \o ToString(p), suffix |-> ".tiff"]

\* pathlib.Path.with_suffix
with_suffix(path, s) == [path EXCEPT !.suffix = s]

\* tempdir / pathlib.Path("final.pdf")
final_pdf_path == [stem |-> "final", suffix |-> ".pdf"]

NoPath == [stem |-> "", suffix |-> ""]

EmptyFS == [f \in {} |-> 0]

\* the file open(page_path, "w") creates before scanimage writes to it
EmptyFile == [kind |-> "tiff", pages |-> <<>>, text |-> FALSE]

\* the raster image of the sheet scanned at index p
Image(p) == [kind |-> "tiff", pages |-> <<p>>, text |-> FALSE]

\* a file that was in the output directory before the run
OldFile == [kind |-> "old", pages |-> <<>>, text |-> FALSE]

Ev(ev, n, args, out, rc) ==
    [ev |-> ev, n |-> n, args |-> args, out |-> out, rc |-> rc]

\* str.endswith('.pdf') on a file name held as a sequence of its parts
endswith_pdf(f) == Len(f) > 0 /\ f[Len(f)] = ".pdf"

Required == {"convert", "tesseract", "scanimage", "gs"}

RequiredOrder == <<"convert", "tesseract", "scanimage", "gs">>

Filenames == {<<"report">>, <<"report", ".pdf">>}

PageArgs == (0 - 1)..MaxPages

----------------------------------------------------------------------------
\* Initial state: the process has been started, nothing has run yet.

Init ==
    /\ pc = "import"
    /\ installed \in SUBSET Required
    /\ argv \in [pages : {<<>>} \cup {<<n>> : n \in PageArgs},
                 no_ocr : BOOLEAN,
                 filename : Filenames,
                 output_dir_exists : BOOLEAN]
    /\ outfiles0 \in {[f \in S |-> OldFile] : S \in SUBSET Filenames}
    /\ outfiles = outfiles0
    /\ pages = 0
    /\ tempdir = FALSE
    /\ tempfiles = EmptyFS
    /\ page = 0
    /\ page_list = <<>>
    /\ conv_i = 1
    /\ pdf_list = <<>>
    /\ final_pdf = NoPath
    /\ events = <<>>
    /\ logged = <<>>
    /\ exit_status = 0 - 1

----------------------------------------------------------------------------
\* look_for_required_commands(), run at import time

MissingCommands_noGs ==
    SelectSeq(RequiredOrder, LAMBDA c : c \notin installed /\ c # "gs")

\* the commands shutil.which does not find, in the order they are looked up
MissingCommands == SelectSeq(RequiredOrder, LAMBDA c : c \notin installed)

look_for_required_commands ==
    /\ pc = "import"
    /\ logged' = logged \o MissingCommands
    /\ IF MissingCommands # <<>>
       THEN /\ pc' = "exited"
            /\ exit_status' = EXIT_FAILURE
       ELSE /\ pc' = "cli"
            /\ UNCHANGED exit_status
    /\ UNCHANGED <<installed, argv, pages, outfiles0, outfiles, tempdir,
                   tempfiles, page, page_list, conv_i, pdf_list, final_pdf,
                   events>>

----------------------------------------------------------------------------
\* click resolves the options and the argument before it calls main

\* --output-dir is a click.Path(exists=True): a usage error, exit status 2
cli_bad_output_dir ==
    /\ pc = "cli"
    /\ ~argv.output_dir_exists
    /\ events' = Append(events, Ev("usage_error", 0, <<>>, NoPath, 2))
    /\ pc' = "exited"
    /\ exit_status' = 2
    /\ UNCHANGED <<installed, argv, pages, outfiles0, outfiles, tempdir,
                   tempfiles, page, page_list, conv_i, pdf_list, final_pdf,
                   logged>>

\* --pages was given: type=int accepts any integer
cli_pages_given ==
    /\ pc = "cli"
    /\ argv.output_dir_exists
    /\ argv.pages # <<>>
    /\ pages' = argv.pages[1]
    /\ events' = Append(events, Ev("resolve", argv.pages[1], <<>>, NoPath, 0))
    /\ pc' = "main"
    /\ UNCHANGED <<installed, argv, outfiles0, outfiles, tempdir, tempfiles,
                   page, page_list, conv_i, pdf_list, final_pdf, logged,
                   exit_status>>

\* --pages was omitted: prompt=True asks for it; the operator types an
\* integer, or interrupts and click aborts with exit status 1
cli_pages_prompt ==
    /\ pc = "cli"
    /\ argv.output_dir_exists
    /\ argv.pages = <<>>
    /\ \/ \E n \in PageArgs :
            /\ pages' = n
            /\ events' = events \o <<Ev("prompt_pages", n, <<>>, NoPath, 0),
                                     Ev("resolve", n, <<>>, NoPath, 0)>>
            /\ pc' = "main"
            /\ UNCHANGED exit_status
       \/ /\ events' = Append(events, Ev("prompt_pages", 0, <<>>, NoPath, 1))
          /\ pc' = "exited"
          /\ exit_status' = 1
          /\ UNCHANGED pages
    /\ UNCHANGED <<installed, argv, outfiles0, outfiles, tempdir, tempfiles,
                   page, page_list, conv_i, pdf_list, final_pdf, logged>>

----------------------------------------------------------------------------
\* main(): the output pre-check and the temporary directory

\* if not filename.endswith('.pdf'): filename += ".pdf"
NormalizedFilename(f) == IF endswith_pdf(f) THEN f ELSE f \o <<".pdf">>

\* pathlib.Path(output_dir) / pathlib.Path(filename), as a name in output_dir
final_output == NormalizedFilename(argv.filename)

OutputExists_never == FALSE

\* final_output.exists()
OutputExists == final_output \in DOMAIN outfiles

\* the conversion loop's head: for page in page_list
ConvPc(i, plist) == IF i <= Len(plist) THEN "convert" ELSE "assemble"

ScanPc_offByOne(p, plist) == IF p <= pages THEN "prompt" ELSE ConvPc(1, plist)

\* the scan loop's head: for page in range(pages)
ScanPc(p, plist) == IF p < pages THEN "prompt" ELSE ConvPc(1, plist)

TemporaryDirectoryExit_leak == [dir |-> tempdir, files |-> tempfiles]

\* TemporaryDirectory.__exit__: the directory and all it holds are removed
TemporaryDirectoryExit == [dir |-> FALSE, files |-> EmptyFS]

\* The exit status after an exception left main: logger.catch swallows an
\* Exception and main returns None, so click exits 0; a KeyboardInterrupt is
\* not an Exception, reaches click, and click aborts with 1.
ExitAfter(exc) == IF exc = "KeyboardInterrupt" THEN 1 ELSE 0

\* An exception raised inside the with block: the block is left, the
\* temporary directory is removed, and the exception reaches logger.catch.
Raise(exc) ==
    /\ tempdir' = TemporaryDirectoryExit.dir
    /\ tempfiles' = TemporaryDirectoryExit.files
    /\ events' = Append(events, Ev("cleanup", 0, <<>>, NoPath, 0))
    /\ logged' = IF exc = "KeyboardInterrupt" THEN logged
                 ELSE Append(logged, exc)
    /\ exit_status' = ExitAfter(exc)
    /\ pc' = "exited"
    /\ UNCHANGED <<installed, argv, pages, outfiles0, outfiles, page,
                   page_list, conv_i, pdf_list, final_pdf>>

\* the output file is already there: log an error and return
main_output_exists ==
    /\ pc = "main"
    /\ OutputExists
    /\ logged' = Append(logged, "already exists")
    /\ pc' = "exited"
    /\ exit_status' = 0
    /\ UNCHANGED <<installed, argv, pages, outfiles0, outfiles, tempdir,
                   tempfiles, page, page_list, conv_i, pdf_list, final_pdf,
                   events>>

\* tempfile.TemporaryDirectory() is entered and the two lists are created
main_enter_tempdir ==
    /\ pc = "main"
    /\ ~OutputExists
    /\ tempdir' = TRUE
    /\ tempfiles' = EmptyFS
    /\ events' = Append(events, Ev("mkdtemp", 0, <<>>, NoPath, 0))
    /\ page_list' = <<>>
    /\ pdf_list' = <<>>
    /\ page' = 0
    /\ pc' = ScanPc(0, <<>>)
    /\ UNCHANGED <<installed, argv, pages, outfiles0, outfiles, conv_i,
                   final_pdf, logged, exit_status>>

----------------------------------------------------------------------------
\* The scan loop

\* input(f"Press Enter to scan page {tpage}") returns
prompt_enter ==
    /\ pc = "prompt"
    /\ events' = Append(events, Ev("input", page + 1, <<>>, NoPath, 0))
    /\ pc' = "scan"
    /\ UNCHANGED <<installed, argv, pages, outfiles0, outfiles, tempdir,
                   tempfiles, page, page_list, conv_i, pdf_list, final_pdf,
                   logged, exit_status>>

\* input() is interrupted by the operator, or standard input is at its end
prompt_abort ==
    /\ pc = "prompt"
    /\ \E exc \in {"KeyboardInterrupt", "EOFError"} : Raise(exc)

\* scanimage writes the raster image to the file opened for it; when it
\* fails the file stays as open(page_path, "w") left it
ScanResult(p, ok) ==
    [rc |-> IF ok THEN 0 ELSE 1,
     content |-> IF ok THEN Image(p) ELSE EmptyFile]

\* open(page_path, "w"), subprocess.run(["scanimage", ...]),
\* page_list.append(page_path)
scan_page ==
    /\ pc = "scan"
    /\ \E ok \in BOOLEAN :
        LET page_path == page_name(page)
            r == ScanResult(page, ok)
        IN  /\ tempfiles' = (page_path :> r.content) @@ tempfiles
            /\ events' = Append(events,
                   Ev("scanimage", page, <<>>, page_path, r.rc))
            /\ page_list' = Append(page_list, page_path)
            /\ page' = page + 1
            /\ pc' = ScanPc(page + 1, Append(page_list, page_path))
    /\ UNCHANGED <<installed, argv, pages, outfiles0, outfiles, tempdir,
                   conv_i, pdf_list, final_pdf, logged, exit_status>>

\* open() or subprocess.run() raises an OSError
scan_raise ==
    /\ pc = "scan"
    /\ Raise("OSError")

----------------------------------------------------------------------------
\* The conversion loop

Converter_swapped == IF ~argv.no_ocr THEN "convert" ELSE "tesseract"

\* if not no_ocr: tesseract, else: convert
Converter == IF ~argv.no_ocr THEN "tesseract" ELSE "convert"

\* what the converter is given: tesseract the output base, to which it adds
\* ".pdf"; convert the output path itself
ConverterArgs(tool, in, pdf_base, pdf_out) ==
    IF tool = "tesseract" THEN <<in, pdf_base>> ELSE <<in, pdf_out>>

\* the file the converter writes when it succeeds
ConverterTarget(tool, args) ==
    IF tool = "tesseract" THEN with_suffix(args[2], ".pdf") ELSE args[2]

\* A converter succeeds only on a raster image that holds a page; it then
\* writes a PDF of that page, with a text layer when it is the OCR engine.
\* When it fails it returns a non-zero status and writes nothing.
ConvertResult(tool, content, ok) ==
    LET good == ok /\ content.kind = "tiff" /\ content.pages # <<>>
    IN  [rc |-> IF good THEN 0 ELSE 1,
         wrote |-> good,
         content |-> [kind |-> "pdf", pages |-> content.pages,
                      text |-> (tool = "tesseract")]]

\* one iteration of: for page in page_list
convert_page ==
    /\ pc = "convert"
    /\ \E ok \in BOOLEAN :
        LET in == page_list[conv_i]
            pdf_base == with_suffix(in, "")
            pdf_out == with_suffix(in, ".pdf")
            args == ConverterArgs(Converter, in, pdf_base, pdf_out)
            target == ConverterTarget(Converter, args)
            r == ConvertResult(Converter, tempfiles[in], ok)
        IN  /\ tempfiles' = IF r.wrote THEN (target :> r.content) @@ tempfiles
                            ELSE tempfiles
            /\ events' = Append(events, Ev(Converter, conv_i - 1, args, target, r.rc))
            /\ pdf_list' = Append(pdf_list, pdf_out)
    /\ conv_i' = conv_i + 1
    /\ pc' = ConvPc(conv_i + 1, page_list)
    /\ UNCHANGED <<installed, argv, pages, outfiles0, outfiles, tempdir,
                   page, page_list, final_pdf, logged, exit_status>>

\* subprocess.run() raises an OSError
convert_raise ==
    /\ pc = "convert"
    /\ Raise("OSError")

----------------------------------------------------------------------------
\* Assembly

RECURSIVE MergedPages(_, _)
\* the pages gs has written when it stops: those of the inputs it could read,
\* in the order given, up to the first input that is missing
MergedPages(inputs, files) ==
    IF inputs = <<>> \/ Head(inputs) \notin DOMAIN files THEN <<>>
    ELSE files[Head(inputs)].pages \o MergedPages(Tail(inputs), files)

\* gs succeeds when it runs well and every input is there; otherwise it
\* returns a non-zero status
GsResult(inputs, files, ok) ==
    [rc |-> IF ok /\ \A i \in 1..Len(inputs) : inputs[i] \in DOMAIN files
            THEN 0 ELSE 1,
     content |-> [kind |-> "pdf", pages |-> MergedPages(inputs, files),
                  text |-> \E i \in 1..Len(inputs) :
                              /\ inputs[i] \in DOMAIN files
                              /\ files[inputs[i]].text]]

SinglePage_never == FALSE

\* len(pdf_list) == 1
SinglePage == Len(pdf_list) = 1

GsInputs_reversed == [i \in 1..Len(pdf_list) |-> pdf_list[Len(pdf_list) + 1 - i]]

\* the input files of gs_commands: ["gs"] + GS_OPTIONS + [-sOutputFile] + pdf_list
GsInputs == pdf_list

\* final_pdf = pdf_list[0]
assemble_single ==
    /\ pc = "assemble"
    /\ SinglePage
    /\ final_pdf' = pdf_list[1]
    /\ pc' = "publish"
    /\ UNCHANGED <<installed, argv, pages, outfiles0, outfiles, tempdir,
                   tempfiles, page, page_list, conv_i, pdf_list, events,
                   logged, exit_status>>

\* final_pdf = tempdir / "final.pdf"; subprocess.run(gs_commands).  gs that
\* returns 0 has written its output when it had pages to write; otherwise
\* it may or may not have left an output file.
assemble_merge ==
    /\ pc = "assemble"
    /\ ~SinglePage
    /\ final_pdf' = final_pdf_path
    /\ \E ok \in BOOLEAN, wrote \in BOOLEAN :
        LET r == GsResult(GsInputs, tempfiles, ok)
        IN  /\ (r.rc = 0 /\ r.content.pages # <<>>) => wrote
            /\ tempfiles' = IF wrote
                            THEN (final_pdf_path :> r.content) @@ tempfiles
                            ELSE tempfiles
            /\ events' = Append(events,
                   Ev("gs", 0, GsInputs, final_pdf_path, r.rc))
    /\ pc' = "publish"
    /\ UNCHANGED <<installed, argv, pages, outfiles0, outfiles, tempdir,
                   page, page_list, conv_i, pdf_list, logged, exit_status>>

\* subprocess.run() raises an OSError
assemble_raise ==
    /\ pc = "assemble"
    /\ ~SinglePage
    /\ Raise("OSError")

----------------------------------------------------------------------------
\* Publish

\* the file shutil.copyfile reads
CopySource == final_pdf

\* shutil.copyfile(final_pdf, final_output), then the with block is left and
\* main returns: click exits with status 0
publish ==
    /\ pc = "publish"
    /\ CopySource \in DOMAIN tempfiles
    /\ outfiles' = (final_output :> tempfiles[CopySource]) @@ outfiles
    /\ tempdir' = TemporaryDirectoryExit.dir
    /\ tempfiles' = TemporaryDirectoryExit.files
    /\ events' = events \o <<Ev("copyfile", 0, <<CopySource>>, NoPath, 0),
                             Ev("cleanup", 0, <<>>, NoPath, 0)>>
    /\ pc' = "exited"
    /\ exit_status' = 0
    /\ UNCHANGED <<installed, argv, pages, outfiles0, page, page_list,
                   conv_i, pdf_list, final_pdf, logged>>

\* shutil.copyfile finds no file at final_pdf: FileNotFoundError
publish_missing ==
    /\ pc = "publish"
    /\ CopySource \notin DOMAIN tempfiles
    /\ Raise("FileNotFoundError")

----------------------------------------------------------------------------
Next ==
    \/ look_for_required_commands
    \/ cli_bad_output_dir
    \/ cli_pages_given
    \/ cli_pages_prompt
    \/ main_output_exists
    \/ main_enter_tempdir
    \/ prompt_enter
    \/ prompt_abort
    \/ scan_page
    \/ scan_raise
    \/ convert_page
    \/ convert_raise
    \/ assemble_single
    \/ assemble_merge
    \/ assemble_raise
    \/ publish
    \/ publish_missing

Spec == Init /\ [][Next]_vars

----------------------------------------------------------------------------
\* Properties

Has(name) == \E i \in 1..Len(events) : events[i].ev = name

EventsOf(names) == SelectSeq(events, LAMBDA e : e.ev \in names)

Converters == {"tesseract", "convert"}

\* the file name with exactly one ".pdf" at its end
Suffixed(f) == IF f[Len(f)] = ".pdf" THEN f ELSE Append(f, ".pdf")

\* the run created or changed the file at the final output path
Published ==
    /\ Suffixed(argv.filename) \in DOMAIN outfiles
    /\ \/ Suffixed(argv.filename) \notin DOMAIN outfiles0
       \/ outfiles[Suffixed(argv.filename)] # outfiles0[Suffixed(argv.filename)]

\* page_<i>.<suffix>
PagePath(i, suffix) == [stem |-> "page_" \o ToString(i), suffix |-> suffix]

\* C1, as claimed: a file appears at the final output path only in runs in
\* which no external invocation returned a failure.  Stated for the page
\* counts the specification admits (pages >= 1).
C1_PublishOnlyAfterFullSuccess ==
    (pages >= 1 /\ Published) =>
        \A i \in 1..Len(events) :
            events[i].ev \in Required => events[i].rc = 0

\* C2: when a required command is missing, the process has exited with a
\* non-zero status as soon as the import-time check has run, with one error
\* line per missing command and nothing else done: no option resolved, no
\* prompt, no temporary directory, no external invocation, no output file.
C2_MissingCommandExitsFirst ==
    (installed # Required /\ pc # "import") =>
        /\ pc = "exited"
        /\ exit_status # 0
        /\ Len(logged) = Cardinality(Required \ installed)
        /\ \A c \in Required \ installed : \E i \in 1..Len(logged) : logged[i] = c
        /\ events = <<>>
        /\ ~tempdir
        /\ tempfiles = EmptyFS
        /\ outfiles = outfiles0

C2_Witness ==
    /\ pc = "exited"
    /\ installed = {"convert", "tesseract", "scanimage"}
    /\ exit_status = 1

\* C3: when a file is already at the final output path (the file name with
\* the .pdf suffix enforced), main does nothing more: no temporary directory,
\* no prompt, no scan, conversion, merge or copy, and the output directory is
\* as it was.
C3_ExistingOutputUntouched ==
    (Suffixed(argv.filename) \in DOMAIN outfiles0
        /\ pc \notin {"import", "cli", "main"}) =>
        /\ pc = "exited"
        /\ ~tempdir
        /\ tempfiles = EmptyFS
        /\ outfiles = outfiles0
        /\ EventsOf({"mkdtemp", "input", "scanimage", "copyfile", "gs"}
                    \cup Converters) = <<>>

C3_Witness ==
    /\ pc = "exited"
    /\ argv.filename = <<"report">>
    /\ outfiles0 = [f \in {<<"report", ".pdf">>} |-> OldFile]
    /\ logged = <<"already exists">>
    /\ outfiles = outfiles0

\* C4: for a page count N > 1, gs is invoked at most once, and exactly once
\* by the time the copy is reached; it is given exactly the N paths
\* page_0.pdf .. page_(N-1).pdf in that order and writes final.pdf; the copy
\* reads final.pdf; and when every invocation succeeded the published file
\* holds the N pages in capture order.
C4_MergeInOrder ==
    pages > 1 =>
        LET gs == EventsOf({"gs"})
            cp == EventsOf({"copyfile"})
        IN  /\ Len(gs) <= 1
            /\ (pc = "publish" \/ cp # <<>>) => Len(gs) = 1
            /\ \A i \in 1..Len(gs) :
                /\ gs[i].args = [k \in 1..pages |-> PagePath(k - 1, ".pdf")]
                /\ gs[i].out = [stem |-> "final", suffix |-> ".pdf"]
            /\ \A i \in 1..Len(cp) :
                cp[i].args = <<[stem |-> "final", suffix |-> ".pdf"]>>
            /\ (Published /\ \A i \in 1..Len(events) : events[i].rc = 0) =>
                outfiles[Suffixed(argv.filename)].pages
                    = [k \in 1..pages |-> k - 1]

C4_Witness ==
    /\ pages = 3
    /\ pc = "exited"
    /\ Published
    /\ outfiles[Suffixed(argv.filename)].pages = <<0, 1, 2>>
    /\ Len(EventsOf({"gs"})) = 1

\* C5: once the process has ended, the temporary directory and every file in
\* it are gone, whatever ended the run, and the output directory differs from
\* what it was at most at the final output path; the temporary directory
\* exists only while the pipeline is running.
C5_WorkspaceRemoved ==
    /\ pc = "exited" =>
        /\ ~tempdir
        /\ tempfiles = EmptyFS
        /\ \A f \in (DOMAIN outfiles) \cup (DOMAIN outfiles0) :
            f # Suffixed(argv.filename) =>
                /\ f \in DOMAIN outfiles
                /\ f \in DOMAIN outfiles0
                /\ outfiles[f] = outfiles0[f]
        /\ Has("mkdtemp") => events[Len(events)].ev = "cleanup"
    /\ tempdir => pc \in {"prompt", "scan", "convert", "assemble", "publish"}
    /\ ~tempdir => tempfiles = EmptyFS

C5_Witness ==
    /\ pc = "exited"
    /\ Has("mkdtemp")
    /\ Has("scanimage")
    /\ logged = <<"FileNotFoundError">>
    /\ ~tempdir

\* C6, as claimed: the pipeline body never runs with pages <= 0, and gs is
\* never given an empty input list.
C6_PagesPositive ==
    /\ (tempdir \/ Has("mkdtemp")) => pages > 0
    /\ \A i \in 1..Len(events) : events[i].ev = "gs" => events[i].args # <<>>

\* C7, as claimed: when an exception raised in the pipeline was caught and
\* logged (here the copy not finding the assembled file), the process exits
\* with a non-zero status.  Stated for pages >= 1.
C7_CaughtExceptionExitsNonZero ==
    (pc = "exited" /\ pages >= 1
        /\ \E i \in 1..Len(logged) : logged[i] = "FileNotFoundError") =>
        exit_status # 0

\* C8: for a page count of 1, gs is never invoked, no final.pdf is created,
\* the copy reads page_0.pdf, and the published file is the converted PDF of
\* the one page.
C8_SinglePageNoMerge ==
    pages = 1 =>
        /\ ~Has("gs")
        /\ [stem |-> "final", suffix |-> ".pdf"] \notin DOMAIN tempfiles
        /\ final_pdf \in {NoPath, PagePath(0, ".pdf")}
        /\ \A i \in 1..Len(events) :
            events[i].ev = "copyfile" =>
                events[i].args = <<PagePath(0, ".pdf")>>
        /\ Published =>
            outfiles[Suffixed(argv.filename)]
                = [kind |-> "pdf", pages |-> <<0>>, text |-> ~argv.no_ocr]

C8_Witness ==
    /\ pages = 1
    /\ pc = "exited"
    /\ Published
    /\ Has("copyfile")

\* C9: every per-page conversion of a run uses convert when no_ocr is set
\* and tesseract when it is not; the other one is never invoked; the PDF of
\* page i is written at page_i.pdf, the path appended to pdf_list, with a
\* text layer exactly when the OCR engine made it.
C9_ConverterUniform ==
    /\ \A i \in 1..Len(events) :
        events[i].ev \in Converters =>
            /\ events[i].ev = IF argv.no_ocr THEN "convert" ELSE "tesseract"
            /\ events[i].args[1] = PagePath(events[i].n, ".tiff")
            /\ events[i].out = PagePath(events[i].n, ".pdf")
    /\ pdf_list = [k \in 1..Len(pdf_list) |-> PagePath(k - 1, ".pdf")]
    /\ Len(pdf_list) = Len(EventsOf(Converters))
    /\ \A k \in 1..Len(pdf_list) :
        pdf_list[k] \in DOMAIN tempfiles =>
            tempfiles[pdf_list[k]].text = ~argv.no_ocr

C9_Witness ==
    /\ argv.no_ocr
    /\ Len(EventsOf({"convert"})) = 2
    /\ pdf_list = <<PagePath(0, ".pdf"), PagePath(1, ".pdf")>>
    /\ PagePath(1, ".pdf") \in DOMAIN tempfiles

\* the stage an event belongs to, with its index
StageOf(e) ==
    <<IF e.ev \in Converters THEN "conversion" ELSE e.ev, e.n>>

\* the order of events of a complete run with page count n
ExpectedOrder(n) ==
    [k \in 1..(2 * n) |-> IF k % 2 = 1 THEN <<"input", (k + 1) \div 2>>
                          ELSE <<"scanimage", (k \div 2) - 1>>]
    \o [k \in 1..n |-> <<"conversion", k - 1>>]
    \o (IF n = 1 THEN <<>> ELSE <<<<"gs", 0>>>>)
    \o <<<<"copyfile", 0>>>>

\* C10: the prompts, scans, conversions, the merge and the copy of a run
\* happen in one fixed order: prompt i+1 then scan i for i = 0..N-1, each scan
\* written to page_i.tiff, then the N conversions in capture order, then the
\* merge if any, then the copy; what a run has done is always an initial
\* part of that order, and it is the whole of it when the copy was made.
C10_SequentialOrder ==
    LET done == EventsOf({"input", "scanimage", "gs", "copyfile"}
                         \cup Converters)
        want == ExpectedOrder(pages)
    IN  /\ Len(done) <= Len(want)
        /\ \A k \in 1..Len(done) : StageOf(done[k]) = want[k]
        /\ \A k \in 1..Len(done) :
            done[k].ev = "scanimage" => done[k].out = PagePath(done[k].n, ".tiff")
        /\ Has("copyfile") => Len(done) = Len(want)

C10_Witness ==
    /\ pages = 2
    /\ pc = "exited"
    /\ Has("copyfile")
    /\ Len(EventsOf({"scanimage"})) = 2
    /\ Len(EventsOf(Converters)) = 2

====
